---- MODULE Spec2Model ----
(***************************************************************************)
(* Cart ledger (Cart view) and checkout wizard (Checkout view) of the      *)
(* shop front end.  Prices are integers in cents.  A quantity is a         *)
(* JavaScript value: a number or null (InputNumber delivers null for an    *)
(* emptied field), kept as a tagged record so that both can be stored.     *)
(*                                                                         *)
(* cartItems and currentStep are the React states; renderedCartItems and   *)
(* renderedStep are the values of the last render, which the handlers'     *)
(* closures see.  file and returned are the argument and the result of the *)
(* avatar upload gate of the Profile view.  event is the handler call that *)
(* ran last and emitted the messages it showed.  loading holds the loading *)
(* flag of each view with a submit or fetch handler, call the position of  *)
(* the handler that is running, currentPage and data the page and the      *)
(* fetched data of the list views.                                         *)
(***************************************************************************)
EXTENDS Integers, Sequences, FiniteSets

VARIABLES cartItems, renderedCartItems, currentStep, renderedStep, checkoutItems,
          file, returned, loading, call, currentPage, data, event, emitted

vars == <<cartItems, renderedCartItems, currentStep, renderedStep, checkoutItems,
          file, returned, loading, call, currentPage, data, event, emitted>>

\* state of the submit and fetch handlers: the loading flag of each view, the
\* handler call in progress, the page of the product list and the fetched data
loadingVars == <<loading, call, currentPage, data>>

(* ---------------------------------------------------------------------- *)
(* Bounds                                                                 *)
(* ---------------------------------------------------------------------- *)
\* ids a caller may pass; the initial cart holds ids 1 and 2, larger ids are absent
MaxId == 3

\* largest of the small in-range quantities a caller passes
MaxSmallQuantity == 2

\* file sizes are taken up to this many bytes below and above the size limit
MaxSizeDelta == 4

\* pages of the product list the user can switch to
MaxPage == 3

(* ---------------------------------------------------------------------- *)
(* JavaScript values                                                      *)
(* ---------------------------------------------------------------------- *)
JsNull == [t |-> "null"]

JsNum(n) == [t |-> "number", v |-> n]

\* ToNumber as applied by the * operator: null becomes 0
ToNumber(x) == IF x.t = "null" THEN 0 ELSE x.v

\* bounds of the quantity input widget
InputMin == 1

InputMax == 100

Ids == 1..MaxId

\* values handleQuantityChange can be called with
QuantityArgs ==
  {JsNull} \cup {JsNum(n) : n \in (-1)..MaxSmallQuantity} \cup {JsNum(InputMax), JsNum(InputMax + 1)}

(* ---------------------------------------------------------------------- *)
(* Cart view                                                              *)
(* ---------------------------------------------------------------------- *)
InitialCartItems ==
  << [id |-> 1, productId |-> 1, price |-> 29999, quantity |-> JsNum(2), checked |-> TRUE],
     [id |-> 2, productId |-> 2, price |-> 19999, quantity |-> JsNum(1), checked |-> TRUE] >>

\* variant: the id test is forgotten, every item gets the quantity
QuantityUpdaterAll(items, id, quantity) ==
  [i \in 1..Len(items) |-> [items[i] EXCEPT !.quantity = quantity]]

\* items.map(item => item.id === id ? { ...item, quantity } : item)
QuantityUpdater(items, id, quantity) ==
  [i \in 1..Len(items) |->
     IF items[i].id = id THEN [items[i] EXCEPT !.quantity = quantity] ELSE items[i]]

\* variant: the id is used as a position, items.splice(id - 1, 1)
DeleteUpdaterSplice(items, id) ==
  IF id \in 1..Len(items)
  THEN SubSeq(items, 1, id - 1) \o SubSeq(items, id + 1, Len(items))
  ELSE items

\* items.filter(item => item.id !== id)
DeleteUpdater(items, id) == SelectSeq(items, LAMBDA item : item.id # id)

\* variant: the test is inverted, item.id !== id
CheckUpdaterOthers(items, id, checked) ==
  [i \in 1..Len(items) |->
     IF items[i].id # id THEN [items[i] EXCEPT !.checked = checked] ELSE items[i]]

\* variant: the changed copy is appended, [...items, { ...item, checked }]
CheckUpdaterAppend(items, id, checked) ==
  items \o [i \in 1..Len(SelectSeq(items, LAMBDA item : item.id = id)) |->
              [SelectSeq(items, LAMBDA item : item.id = id)[i] EXCEPT !.checked = checked]]

\* items.map(item => item.id === id ? { ...item, checked } : item)
CheckUpdater(items, id, checked) ==
  [i \in 1..Len(items) |->
     IF items[i].id = id THEN [items[i] EXCEPT !.checked = checked] ELSE items[i]]

\* variant: the box can only switch items on, checked: item.checked || checked
CheckAllUpdaterOr(items, checked) ==
  [i \in 1..Len(items) |-> [items[i] EXCEPT !.checked = items[i].checked \/ checked]]

\* items.map(item => ({ ...item, checked }))
CheckAllUpdater(items, checked) ==
  [i \in 1..Len(items) |-> [items[i] EXCEPT !.checked = checked]]

\* the filter of totalAmount and checkedCount
CheckedItems(items) == SelectSeq(items, LAMBDA item : item.checked)

\* items.reduce((sum, item) => sum + item.price * item.quantity, 0)
RECURSIVE ReduceAmount(_, _)
ReduceAmount(items, sum) ==
  IF items = <<>> THEN sum
  ELSE ReduceAmount(Tail(items), sum + Head(items).price * ToNumber(Head(items).quantity))

\* variant: the reduce runs over the whole list, the filter is forgotten
totalAmountNoFilter == ReduceAmount(cartItems, 0)

totalAmount == ReduceAmount(CheckedItems(cartItems), 0)

checkedCount == Len(CheckedItems(cartItems))

\* variant: the non-empty test of the select-all box is forgotten
selectAllCheckedNoLength == checkedCount = Len(cartItems)

\* checked prop of the select-all box
selectAllChecked == checkedCount = Len(cartItems) /\ Len(cartItems) > 0

\* indeterminate prop of the select-all box
selectAllIndeterminate == checkedCount > 0 /\ checkedCount < Len(cartItems)

\* disabled prop of the go-to-checkout button
checkoutDisabled == checkedCount = 0

(* ---------------------------------------------------------------------- *)
(* Checkout view                                                          *)
(* ---------------------------------------------------------------------- *)
\* the item list the Checkout component builds on every render
CheckoutCartItems ==
  << [id |-> 1, price |-> 29999, quantity |-> JsNum(2)],
     [id |-> 2, price |-> 19999, quantity |-> JsNum(1)] >>

StepsLength == 3

\* variant: the reduce adds each price once, the quantity is forgotten
RECURSIVE ReducePrice(_, _)
ReducePrice(items, sum) ==
  IF items = <<>> THEN sum ELSE ReducePrice(Tail(items), sum + Head(items).price)

checkoutTotalAmountNoQuantity == ReducePrice(checkoutItems, 0)

\* variant: the view reads the cart's list instead of its own
checkoutTotalAmountLive == ReduceAmount(cartItems, 0)

checkoutTotalAmount == ReduceAmount(checkoutItems, 0)

shippingFee == 0

discount == 0

finalAmount == checkoutTotalAmount + shippingFee - discount

\* variant: the step index jumps to the last step
NextStepSkip(captured, current) ==
  IF captured < StepsLength - 1 THEN StepsLength - 1 ELSE current

\* variant: a functional update, setCurrentStep(step => step + 1)
NextStepFunctional(captured, current) ==
  IF current < StepsLength - 1 THEN current + 1 ELSE current

\* step written by handleNext when it ran with the captured step
NextStep(captured, current) ==
  IF captured < StepsLength - 1 THEN captured + 1 ELSE current

\* variant: the success message is emitted when the last step is entered
NextMessagesEarly(captured) ==
  IF captured < StepsLength - 2 THEN <<>> ELSE <<"paymentSuccess">>

\* messages emitted by handleNext
NextMessages(captured) ==
  IF captured < StepsLength - 1 THEN <<>> ELSE <<"paymentSuccess">>

\* variant: the lower guard is off by one, currentStep >= 0
PrevStepNoGuard(captured, current) ==
  IF captured >= 0 THEN captured - 1 ELSE current

\* variant: going back returns to the first step
PrevStepReset(captured, current) ==
  IF captured > 0 THEN 0 ELSE current

\* step written by handlePrev when it ran with the captured step
PrevStep(captured, current) ==
  IF captured > 0 THEN captured - 1 ELSE current

(* ---------------------------------------------------------------------- *)
(* Profile view: avatar upload gate                                       *)
(* ---------------------------------------------------------------------- *)
\* no file has been handed to the gate yet
NoFile == [type |-> "", size |-> 0]

KiB == 1024

\* MIME types of the files offered to the gate
FileTypes == {"image/jpeg", "image/png", "image/gif", "application/pdf", ""}

\* sizes in bytes: the empty file and the sizes around 2 * 1024 * 1024
FileSizes ==
  {0} \cup ((2 * KiB * KiB - MaxSizeDelta)..(2 * KiB * KiB + MaxSizeDelta))

Files == [type : FileTypes, size : FileSizes]

\* file.type === 'image/jpeg' || file.type === 'image/png'
isJpgOrPng(f) == f.type = "image/jpeg" \/ f.type = "image/png"

\* variant: the size test is inclusive, file.size / 1024 / 1024 <= 2
isLt2MInclusive(f) == (f.size \div KiB) \div KiB <= 2

\* file.size / 1024 / 1024 < 2; both divisions are exact in a double and the
\* quotient is compared with an integer, so the whole-number quotient decides
isLt2M(f) == (f.size \div KiB) \div KiB < 2

\* return isJpgOrPng && isLt2M
beforeUpload(f) == isJpgOrPng(f) /\ isLt2M(f)

\* the message.error calls of beforeUpload, in order
beforeUploadMessages(f) ==
  (IF ~isJpgOrPng(f) THEN <<"onlyJpgPng">> ELSE <<>>)
    \o (IF ~isLt2M(f) THEN <<"tooLarge">> ELSE <<>>)

(* ---------------------------------------------------------------------- *)
(* Submit and fetch handlers with a loading flag                          *)
(* ---------------------------------------------------------------------- *)
\* views that keep a loading state
Views == {"Register", "Login", "Profile", "ProductList", "OrderList"}

SubmitHandlers ==
  {"Register.onFinish", "Login.onFinish", "Profile.onFinish", "Profile.onPasswordFinish"}

FetchHandlers == {"ProductList.fetchProducts", "OrderList.fetchOrders"}

Handlers == SubmitHandlers \cup FetchHandlers

\* the view whose setLoading a handler closes over
ViewOf(h) ==
  CASE h = "Register.onFinish"         -> "Register"
    [] h = "Login.onFinish"            -> "Login"
    [] h = "Profile.onFinish"          -> "Profile"
    [] h = "Profile.onPasswordFinish"  -> "Profile"
    [] h = "ProductList.fetchProducts" -> "ProductList"
    [] h = "OrderList.fetchOrders"     -> "OrderList"

\* the statements of a handler's try block, in order
TryStatements(h) ==
  CASE h \in {"Register.onFinish", "Login.onFinish"} -> <<"log", "success", "navigate">>
    [] h \in {"Profile.onFinish", "Profile.onPasswordFinish"} -> <<"log", "success">>
    [] h = "ProductList.fetchProducts" -> <<"mock", "setProducts", "setTotal">>
    [] h = "OrderList.fetchOrders" -> <<"mock", "setOrders">>

\* values a statement of the try block can throw
Thrown == {"Error", "null"}

\* no handler is running
IdleCall == [handler |-> "none", pc |-> "idle", stmt |-> 0, thrown |-> "none", failed |-> FALSE]

\* products, total and orders before any fetch
NoData == [products |-> 0, total |-> 0, orders |-> 0]

\* data state after a statement of a try block has completed
DataAfter(stmt, d) ==
  CASE stmt = "setProducts" -> [d EXCEPT !.products = 12]
    [] stmt = "setTotal"    -> [d EXCEPT !.total = 100]
    [] stmt = "setOrders"   -> [d EXCEPT !.orders = 3]
    [] OTHER                -> d

\* messages after a statement of a try block has completed
MessagesAfter(stmt, msgs) ==
  IF stmt = "success" THEN Append(msgs, "success") ELSE msgs

Pages == 1..MaxPage

(* ---------------------------------------------------------------------- *)
(* State machine: one action per handler; each handler is followed by the *)
(* re-render React performs before the next event is dispatched.          *)
(* ---------------------------------------------------------------------- *)
Init ==
  /\ cartItems = InitialCartItems
  /\ currentStep = 0
  /\ renderedStep = 0
  /\ renderedCartItems = InitialCartItems
  /\ checkoutItems = CheckoutCartItems
  /\ file = NoFile
  /\ returned = <<>>
  /\ loading = [v \in Views |-> FALSE]
  /\ call = IdleCall
  /\ currentPage = 1
  /\ data = NoData
  /\ event = [op |-> "mount"]
  /\ emitted = <<>>

CartFrame == UNCHANGED <<currentStep, renderedStep, checkoutItems, file, returned, loadingVars>>

CheckoutFrame == UNCHANGED <<cartItems, renderedCartItems, file, returned, loadingVars>>

handleQuantityChange ==
  \E id \in Ids, quantity \in QuantityArgs :
    /\ cartItems' = QuantityUpdater(cartItems, id, quantity)
    /\ event' = [op |-> "quantity", id |-> id, quantity |-> quantity]
    /\ emitted' = <<>>
    /\ renderedCartItems' = cartItems'
    /\ CartFrame

handleDelete ==
  \E id \in Ids :
    /\ cartItems' = DeleteUpdater(cartItems, id)
    /\ event' = [op |-> "delete", id |-> id]
    /\ emitted' = <<"deleted">>
    /\ renderedCartItems' = cartItems'
    /\ CartFrame

handleCheck ==
  \E id \in Ids, checked \in BOOLEAN :
    /\ cartItems' = CheckUpdater(cartItems, id, checked)
    /\ event' = [op |-> "check", id |-> id, checked |-> checked]
    /\ emitted' = <<>>
    /\ renderedCartItems' = cartItems'
    /\ CartFrame

handleCheckAll ==
  \E checked \in BOOLEAN :
    /\ cartItems' = CheckAllUpdater(cartItems, checked)
    /\ event' = [op |-> "checkAll", checked |-> checked]
    /\ emitted' = <<>>
    /\ renderedCartItems' = cartItems'
    /\ CartFrame

\* variant: only the checked items are dropped
clearCartChecked ==
  /\ cartItems' = SelectSeq(cartItems, LAMBDA item : ~item.checked)
  /\ event' = [op |-> "clear"]
  /\ emitted' = <<>>
  /\ renderedCartItems' = cartItems'
  /\ CartFrame

clearCart ==
  /\ cartItems' = <<>>
  /\ event' = [op |-> "clear"]
  /\ emitted' = <<>>
  /\ renderedCartItems' = cartItems'
  /\ CartFrame

\* variant: the view is not rendered again after the update
handleNextNoRender ==
  /\ currentStep' = NextStep(renderedStep, currentStep)
  /\ emitted' = NextMessages(renderedStep)
  /\ renderedStep' = renderedStep
  /\ checkoutItems' = CheckoutCartItems
  /\ event' = [op |-> "next"]
  /\ CheckoutFrame

handleNext ==
  /\ currentStep' = NextStep(renderedStep, currentStep)
  /\ emitted' = NextMessages(renderedStep)
  /\ renderedStep' = currentStep'
  /\ checkoutItems' = CheckoutCartItems
  /\ event' = [op |-> "next"]
  /\ CheckoutFrame

handlePrev ==
  /\ currentStep' = PrevStep(renderedStep, currentStep)
  /\ emitted' = <<>>
  /\ renderedStep' = currentStep'
  /\ checkoutItems' = CheckoutCartItems
  /\ event' = [op |-> "prev"]
  /\ CheckoutFrame

Next ==
  \/ handleQuantityChange
  \/ handleDelete
  \/ handleCheck
  \/ handleCheckAll
  \/ clearCart
  \/ handleNext
  \/ handlePrev

Spec == Init /\ [][Next]_vars

(* ---------------------------------------------------------------------- *)
(* User-interface level: the wizard's handlers run only through the       *)
(* buttons the Checkout view renders.  The cart handlers are as above.    *)
(* ---------------------------------------------------------------------- *)
\* variant: the navigation block is rendered at every step
clickNextAlways == handleNext

\* {currentStep < 2 && ... <Button type="primary" onClick={handleNext}>}
clickNext ==
  /\ renderedStep < 2
  /\ handleNext

\* {currentStep < 2 && ... {currentStep > 0 && <Button onClick={handlePrev}>}}
clickPrev ==
  /\ renderedStep < 2
  /\ renderedStep > 0
  /\ handlePrev

NextUI ==
  \/ handleQuantityChange
  \/ handleDelete
  \/ handleCheck
  \/ handleCheckAll
  \/ clearCart
  \/ clickNext
  \/ clickPrev

SpecUI == Init /\ [][NextUI]_vars

(* ---------------------------------------------------------------------- *)
(* Batched invocations: handlers run one after another against the same   *)
(* rendered snapshot; the view is rendered again by a separate step.      *)
(* A functional updater receives the latest list, a plain setCurrentStep  *)
(* argument is computed from the captured step.                           *)
(* ---------------------------------------------------------------------- *)
\* quantities passed in a batch
BatchQuantityArgs == {JsNum(InputMin), JsNum(InputMax)}

BatchCartFrame ==
  UNCHANGED <<renderedCartItems, currentStep, renderedStep, checkoutItems, file, returned,
              loadingVars>>

BatchCheckoutFrame ==
  UNCHANGED <<cartItems, renderedCartItems, renderedStep, checkoutItems, file, returned,
              loadingVars>>

invokeQuantityChange ==
  \E id \in Ids, quantity \in BatchQuantityArgs :
    /\ cartItems' = QuantityUpdater(cartItems, id, quantity)
    /\ event' = [op |-> "quantity", id |-> id, quantity |-> quantity]
    /\ emitted' = <<>>
    /\ BatchCartFrame

invokeDelete ==
  \E id \in Ids :
    /\ cartItems' = DeleteUpdater(cartItems, id)
    /\ event' = [op |-> "delete", id |-> id]
    /\ emitted' = <<"deleted">>
    /\ BatchCartFrame

invokeCheck ==
  \E id \in Ids, checked \in BOOLEAN :
    /\ cartItems' = CheckUpdater(cartItems, id, checked)
    /\ event' = [op |-> "check", id |-> id, checked |-> checked]
    /\ emitted' = <<>>
    /\ BatchCartFrame

invokeCheckAll ==
  \E checked \in BOOLEAN :
    /\ cartItems' = CheckAllUpdater(cartItems, checked)
    /\ event' = [op |-> "checkAll", checked |-> checked]
    /\ emitted' = <<>>
    /\ BatchCartFrame

invokeClear ==
  /\ cartItems' = <<>>
  /\ event' = [op |-> "clear"]
  /\ emitted' = <<>>
  /\ BatchCartFrame

invokeNext ==
  /\ currentStep' = NextStep(renderedStep, currentStep)
  /\ emitted' = NextMessages(renderedStep)
  /\ event' = [op |-> "next"]
  /\ BatchCheckoutFrame

invokePrev ==
  /\ currentStep' = PrevStep(renderedStep, currentStep)
  /\ emitted' = <<>>
  /\ event' = [op |-> "prev"]
  /\ BatchCheckoutFrame

\* the views are rendered with the current states
render ==
  /\ renderedStep' = currentStep
  /\ renderedCartItems' = cartItems
  /\ checkoutItems' = CheckoutCartItems
  /\ event' = [op |-> "render"]
  /\ emitted' = <<>>
  /\ UNCHANGED <<cartItems, currentStep, file, returned, loadingVars>>

NextBatch ==
  \/ invokeQuantityChange
  \/ invokeDelete
  \/ invokeCheck
  \/ invokeCheckAll
  \/ invokeClear
  \/ invokeNext
  \/ invokePrev
  \/ render

SpecBatch == Init /\ [][NextBatch]_vars

(* ---------------------------------------------------------------------- *)
(* Avatar upload: a file is picked and handed to beforeUpload.            *)
(* ---------------------------------------------------------------------- *)
InitUpload ==
  /\ cartItems = InitialCartItems
  /\ currentStep = 0
  /\ renderedStep = 0
  /\ renderedCartItems = InitialCartItems
  /\ checkoutItems = CheckoutCartItems
  /\ file \in Files
  /\ returned = <<>>
  /\ loading = [v \in Views |-> FALSE]
  /\ call = IdleCall
  /\ currentPage = 1
  /\ data = NoData
  /\ event = [op |-> "mount"]
  /\ emitted = <<>>

UploadFrame ==
  UNCHANGED <<cartItems, renderedCartItems, currentStep, renderedStep, checkoutItems,
              loadingVars>>

\* the user picks a file in the Upload widget
chooseFile ==
  /\ file' \in Files
  /\ returned' = <<>>
  /\ event' = [op |-> "choose"]
  /\ emitted' = <<>>
  /\ UploadFrame

\* the widget hands the picked file to beforeUpload
beforeUploadCall ==
  /\ returned = <<>>
  /\ returned' = <<beforeUpload(file)>>
  /\ emitted' = beforeUploadMessages(file)
  /\ event' = [op |-> "beforeUpload"]
  /\ UNCHANGED file
  /\ UploadFrame

NextUpload ==
  \/ chooseFile
  \/ beforeUploadCall

SpecUpload == InitUpload /\ [][NextUpload]_vars

(* ---------------------------------------------------------------------- *)
(* Submit and fetch handlers, statement by statement.  The handlers are    *)
(* async functions without await: a call runs from setLoading(true) to the *)
(* end of its finally block before any other handler starts.  Whether a    *)
(* library call inside the try block throws is left open.                  *)
(* ---------------------------------------------------------------------- *)
LoadingFrame ==
  UNCHANGED <<cartItems, renderedCartItems, currentStep, renderedStep, checkoutItems,
              file, returned>>

\* setLoading(true) and entry into the try block
Begin(h) ==
  /\ loading' = [loading EXCEPT ![ViewOf(h)] = TRUE]
  /\ call' = [handler |-> h, pc |-> "try", stmt |-> 1, thrown |-> "none", failed |-> FALSE]
  /\ event' = [op |-> h]
  /\ emitted' = <<>>

\* a form is submitted: Form onFinish
submit ==
  \E h \in SubmitHandlers :
    /\ call.pc = "idle"
    /\ Begin(h)
    /\ UNCHANGED <<currentPage, data>>
    /\ LoadingFrame

\* a list view is mounted: useEffect(() => { fetch...() }, ...)
mountList ==
  \E h \in FetchHandlers :
    /\ call.pc = "idle"
    /\ Begin(h)
    /\ UNCHANGED <<currentPage, data>>
    /\ LoadingFrame

\* the page is changed and the effect on currentPage calls fetchProducts
handlePageChange ==
  \E page \in Pages :
    /\ call.pc = "idle"
    /\ page # currentPage
    /\ currentPage' = page
    /\ Begin("ProductList.fetchProducts")
    /\ UNCHANGED data
    /\ LoadingFrame

\* the next statement of the try block completes
tryStep ==
  /\ call.pc = "try"
  /\ LET stmts == TryStatements(call.handler)
     IN  /\ data' = DataAfter(stmts[call.stmt], data)
         /\ emitted' = MessagesAfter(stmts[call.stmt], emitted)
         /\ call' = IF call.stmt < Len(stmts)
                    THEN [call EXCEPT !.stmt = call.stmt + 1]
                    ELSE [call EXCEPT !.pc = "finally"]
  /\ UNCHANGED <<loading, currentPage, event>>
  /\ LoadingFrame

\* the next statement of the try block throws
tryThrow ==
  \E e \in Thrown :
    /\ call.pc = "try"
    /\ call' = [call EXCEPT !.pc = "catch", !.thrown = e, !.failed = TRUE]
    /\ UNCHANGED <<loading, currentPage, data, event, emitted>>
    /\ LoadingFrame

\* the catch block: message.error(... + error.message) in the submit
\* handlers, where reading .message of null throws a TypeError that leaves
\* the block; console.error(..., error) in the fetch handlers
catchStep ==
  /\ call.pc = "catch"
  /\ IF call.handler \in SubmitHandlers
     THEN IF call.thrown = "null"
          THEN /\ call' = [call EXCEPT !.pc = "finally", !.thrown = "TypeError"]
               /\ emitted' = emitted
          ELSE /\ call' = [call EXCEPT !.pc = "finally", !.thrown = "none"]
               /\ emitted' = Append(emitted, "error")
     ELSE /\ call' = [call EXCEPT !.pc = "finally", !.thrown = "none"]
          /\ emitted' = emitted
  /\ UNCHANGED <<loading, currentPage, data, event>>
  /\ LoadingFrame

\* variant: setLoading(false) is the last statement of the try block
finallyStepTryOnly ==
  /\ call.pc = "finally"
  /\ loading' = IF call.failed THEN loading
                ELSE [loading EXCEPT ![ViewOf(call.handler)] = FALSE]
  /\ call' = [call EXCEPT !.pc = "idle"]
  /\ UNCHANGED <<currentPage, data, event, emitted>>
  /\ LoadingFrame

\* the finally block: setLoading(false); the call ends
finallyStep ==
  /\ call.pc = "finally"
  /\ loading' = [loading EXCEPT ![ViewOf(call.handler)] = FALSE]
  /\ call' = [call EXCEPT !.pc = "idle"]
  /\ UNCHANGED <<currentPage, data, event, emitted>>
  /\ LoadingFrame

\* the steps of the call in progress
RunHandler == tryStep \/ tryThrow \/ catchStep \/ finallyStep

NextLoading ==
  \/ submit
  \/ mountList
  \/ handlePageChange
  \/ tryStep
  \/ tryThrow
  \/ catchStep
  \/ finallyStep

\* a started call is run to its end by the JavaScript engine
SpecLoading == Init /\ [][NextLoading]_vars /\ WF_vars(RunHandler)

(* ---------------------------------------------------------------------- *)
(* Helpers of the properties                                              *)
(* ---------------------------------------------------------------------- *)
HasId(items, id) == \E i \in 1..Len(items) : items[i].id = id

SelectedIndexes(items) == {i \in 1..Len(items) : items[i].checked}

\* sum of unitPrice * quantity over a set of positions
RECURSIVE SumOver(_, _)
SumOver(items, S) ==
  IF S = {} THEN 0
  ELSE LET i == CHOOSE j \in S : TRUE
       IN  items[i].price * ToNumber(items[i].quantity) + SumOver(items, S \ {i})

(* ---------------------------------------------------------------------- *)
(* Properties                                                             *)
(* ---------------------------------------------------------------------- *)
\* C1: in every reachable state the cart total is the sum of price * quantity
\* over exactly the checked items, and a quantity change of an unchecked item
\* leaves the total as it was.
C1_TotalOverSelected ==
  /\ [](totalAmount = SumOver(cartItems, SelectedIndexes(cartItems)))
  /\ [][(/\ event'.op = "quantity"
         /\ \E i \in 1..Len(cartItems) :
               cartItems[i].id = event'.id /\ ~cartItems[i].checked)
        => totalAmount' = totalAmount]_vars

\* C1 witness: an unchecked item has just received quantity 100 while the
\* other item is checked and counted.
C1_Witness ==
  /\ event.op = "quantity"
  /\ event.quantity = JsNum(InputMax)
  /\ Len(cartItems) = 2
  /\ \E i \in 1..2 : /\ cartItems[i].id = event.id
                     /\ ~cartItems[i].checked
                     /\ cartItems[i].quantity = JsNum(InputMax)
                     /\ cartItems[3 - i].checked
  /\ totalAmount > 0

\* C2: every stored quantity is an integer within [1,100] in every state.
C2_QuantityInRange ==
  \A i \in 1..Len(cartItems) :
    /\ cartItems[i].quantity.t = "number"
    /\ cartItems[i].quantity.v \in InputMin..InputMax

\* C3: the wizard starts at step 0; a next() at step 0 gives step 1 and a
\* next() at step 1 gives step 2, no other operation than next()/prev() moves
\* the step, prev() never moves it forward, and step 2 is never entered
\* directly from step 0: two next() calls reach step 2 and fewer do not.
C3_TwoNextsReachTerminal ==
  /\ currentStep = 0
  /\ [][/\ (event'.op = "next" /\ currentStep = 0) => currentStep' = 1
        /\ (event'.op = "next" /\ currentStep = 1) => currentStep' = 2
        /\ event'.op \notin {"next", "prev"} => currentStep' = currentStep
        /\ event'.op = "prev" => currentStep' <= currentStep
        /\ currentStep = 0 => currentStep' # 2]_vars

\* C3 witness: the second next() has just entered step 2 on the untouched cart.
C3_Witness ==
  /\ event.op = "next"
  /\ currentStep = 2
  /\ emitted = <<>>
  /\ cartItems = InitialCartItems

\* C4: next() at step 2 keeps step 2 and emits the payment notification;
\* next() at a step below 2 adds exactly 1 and emits no payment notification.
C4_NextAtBoundary ==
  [][event'.op = "next" =>
       IF currentStep = 2
       THEN currentStep' = 2 /\ emitted' = <<"paymentSuccess">>
       ELSE /\ currentStep < 2
            /\ currentStep' = currentStep + 1
            /\ \A k \in 1..Len(emitted') : emitted'[k] # "paymentSuccess"]_vars

\* C4 witness: next() was called at step 2 and the notification is out.
C4_Witness ==
  /\ event.op = "next"
  /\ currentStep = 2
  /\ emitted = <<"paymentSuccess">>

\* C5: the step is always 0, 1 or 2, no transition moves it forward by more
\* than 1, and step 2 is entered only from step 1.
C5_StepRangeNoSkip ==
  /\ [](currentStep \in {0, 1, 2})
  /\ [][/\ currentStep' <= currentStep + 1
        /\ (currentStep' = 2 /\ currentStep # 2) => currentStep = 1]_vars

\* C5 witness: a next() has just moved the wizard forward to step 1.
C5_Witness ==
  /\ event.op = "next"
  /\ currentStep = 1
  /\ renderedStep = 1

\* C6: prev() at step 0 keeps step 0, prev() at a higher step subtracts
\* exactly 1, and prev() emits no notification.
C6_PrevBehaviour ==
  [][event'.op = "prev" =>
       /\ IF currentStep = 0 THEN currentStep' = 0
                             ELSE currentStep' = currentStep - 1
       /\ emitted' = <<>>]_vars

\* C6 witness: prev() has just run and the wizard is at step 0.
C6_Witness ==
  /\ event.op = "prev"
  /\ currentStep = 0
  /\ emitted = <<>>

\* C7: for every reachable list and every id, removing twice gives the list
\* that removing once gives and the removed id is absent afterwards; after a
\* remove(id) the stored list is a fixed point of remove(id) without that id.
C7_RemoveIdempotent ==
  /\ \A id \in Ids :
        /\ DeleteUpdater(DeleteUpdater(cartItems, id), id) = DeleteUpdater(cartItems, id)
        /\ ~HasId(DeleteUpdater(cartItems, id), id)
  /\ event.op = "delete" =>
        /\ DeleteUpdater(cartItems, event.id) = cartItems
        /\ ~HasId(cartItems, event.id)

\* C7 witness: remove(1) has run and only item 2 is left.
C7_Witness ==
  /\ event.op = "delete"
  /\ event.id = 1
  /\ Len(cartItems) = 1
  /\ cartItems[1].id = 2

\* C8: after setAllSelected(true) the selected count is the list length;
\* after setAllSelected(false) the selected count and the total are 0.
C8_SelectAll ==
  event.op = "checkAll" =>
    IF event.checked
    THEN checkedCount = Len(cartItems)
    ELSE checkedCount = 0 /\ totalAmount = 0

\* C8 witness: setAllSelected(false) has run on the two-item cart.
C8_Witness ==
  /\ event.op = "checkAll"
  /\ ~event.checked
  /\ Len(cartItems) = 2
  /\ checkedCount = 0

\* C9: setQuantity, setSelected and remove called with an id that is not in
\* the list leave the list unchanged and emit no notification.
C9_MissingIdSilent ==
  [][(event'.op \in {"quantity", "check", "delete"} /\ ~HasId(cartItems, event'.id))
       => (cartItems' = cartItems /\ emitted' = <<>>)]_vars

\* C10: the checkout total is the sum of price * quantity over all snapshot
\* items plus the shipping fee minus the discount, both of which are 0, and
\* no transition changes the snapshot or the total.
C10_CheckoutTotal ==
  /\ [](/\ shippingFee = 0
        /\ discount = 0
        /\ finalAmount = SumOver(checkoutItems, 1..Len(checkoutItems)) + shippingFee - discount
        /\ finalAmount = 2 * 29999 + 19999)
  /\ [][checkoutItems' = checkoutItems /\ finalAmount' = finalAmount]_vars

\* C10 witness: the wizard went to the last step and back and the total is
\* still the one of the two snapshot items.
C10_Witness ==
  /\ event.op = "prev"
  /\ currentStep = 1
  /\ Len(checkoutItems) = 2
  /\ finalAmount = 79997

\* position of the item with the given id, 0 when it is absent
IndexOfId(items, id) ==
  IF HasId(items, id) THEN CHOOSE i \in 1..Len(items) : items[i].id = id ELSE 0

\* the two lists differ at most in the named field of the item with the id
SameExcept(old, new, id, field) ==
  /\ Len(new) = Len(old)
  /\ \A i \in 1..Len(old) :
        /\ new[i].id = old[i].id
        /\ new[i].productId = old[i].productId
        /\ new[i].price = old[i].price
        /\ (field # "quantity" \/ old[i].id # id) => new[i].quantity = old[i].quantity
        /\ (field # "checked" \/ old[i].id # id) => new[i].checked = old[i].checked

\* the ledger of the example scenario
ExampleLedger ==
  << [id |-> 1, productId |-> 1, price |-> 29999, quantity |-> JsNum(2), checked |-> TRUE],
     [id |-> 2, productId |-> 2, price |-> 19999, quantity |-> JsNum(1), checked |-> FALSE] >>

\* C11: on the example ledger (item 1 at 299.99 x 2 selected, item 2 at
\* 199.99 x 1 not selected) the total is 599.98 and the selected count 1;
\* setSelected(2, true) on it gives total 799.97 and selected count 2.
C11_ExampleScenario ==
  /\ [](cartItems = ExampleLedger => (totalAmount = 59998 /\ checkedCount = 1))
  /\ [][(/\ cartItems = ExampleLedger
         /\ event'.op = "check"
         /\ event'.id = 2
         /\ event'.checked)
        => (totalAmount' = 79997 /\ checkedCount' = 2)]_vars

\* C11 witness: setSelected(2, true) has run and both example items count.
C11_Witness ==
  /\ event.op = "check"
  /\ event.id = 2
  /\ event.checked
  /\ cartItems = [ExampleLedger EXCEPT ![2].checked = TRUE]
  /\ totalAmount = 79997
  /\ checkedCount = 2

\* C12: clear() leaves the list empty from any state, also from the empty
\* one, so the selected count and the total are 0 afterwards.
C12_ClearEmpties ==
  [][event'.op = "clear" =>
       (cartItems' = <<>> /\ checkedCount' = 0 /\ totalAmount' = 0)]_vars

\* C12 witness: clear() has run a second time, on the already empty list.
C12_Witness ==
  /\ event.op = "clear"
  /\ cartItems = <<>>
  /\ renderedCartItems = <<>>
  /\ totalAmount = 0

\* C13: setQuantity changes only the quantity of the named item, setSelected
\* only its selected flag, setAllSelected only selected flags; length, order
\* and the other fields stay.  remove(id) deletes only the named item and
\* keeps the others in order and unchanged.
C13_FrameOfCartOps ==
  [][/\ event'.op = "quantity" =>
          /\ SameExcept(cartItems, cartItems', event'.id, "quantity")
          /\ \A i \in 1..Len(cartItems) :
                cartItems[i].id = event'.id => cartItems'[i].quantity = event'.quantity
     /\ event'.op = "check" =>
          /\ SameExcept(cartItems, cartItems', event'.id, "checked")
          /\ \A i \in 1..Len(cartItems) :
                cartItems[i].id = event'.id => cartItems'[i].checked = event'.checked
     /\ event'.op = "checkAll" =>
          /\ Len(cartItems') = Len(cartItems)
          /\ \A i \in 1..Len(cartItems) :
                /\ cartItems'[i] = [cartItems[i] EXCEPT !.checked = cartItems'[i].checked]
                /\ cartItems'[i].checked = event'.checked
     /\ event'.op = "delete" =>
          LET k == IndexOfId(cartItems, event'.id)
          IN  IF k = 0 THEN cartItems' = cartItems
              ELSE /\ Len(cartItems') = Len(cartItems) - 1
                   /\ \A i \in 1..Len(cartItems') :
                         cartItems'[i] = IF i < k THEN cartItems[i] ELSE cartItems[i + 1]
    ]_vars

\* C13 witness: setQuantity(2, 100) has changed the second item only.
C13_Witness ==
  /\ event.op = "quantity"
  /\ event.id = 2
  /\ event.quantity = JsNum(InputMax)
  /\ cartItems = [InitialCartItems EXCEPT ![2].quantity = JsNum(InputMax)]

\* C14: no cart operation changes the checkout's items or its total, and no
\* wizard operation changes the cart's list.
C14_SnapshotNotLinked ==
  [][/\ event'.op \in {"quantity", "delete", "check", "checkAll", "clear"} =>
          (checkoutItems' = checkoutItems /\ finalAmount' = finalAmount)
     /\ event'.op \in {"next", "prev"} => cartItems' = cartItems]_vars

\* C14 witness: the cart was emptied and the checkout still totals its own
\* two items.
C14_Witness ==
  /\ event.op = "clear"
  /\ cartItems = <<>>
  /\ Len(checkoutItems) = 2
  /\ finalAmount = 79997
  /\ currentStep = 1

\* C18: the select-all box is checked exactly when the list is non-empty and
\* all items are selected, indeterminate exactly when some but not all items
\* are selected, never both, and the checkout button is disabled exactly
\* when no item is selected.
C18_FooterControls ==
  /\ selectAllChecked <=>
       (cartItems # <<>> /\ \A i \in 1..Len(cartItems) : cartItems[i].checked)
  /\ selectAllIndeterminate <=>
       /\ \E i \in 1..Len(cartItems) : cartItems[i].checked
       /\ \E i \in 1..Len(cartItems) : ~cartItems[i].checked
  /\ ~(selectAllChecked /\ selectAllIndeterminate)
  /\ checkoutDisabled <=> (\A i \in 1..Len(cartItems) : ~cartItems[i].checked)
  /\ event.op = "clear" => (checkoutDisabled /\ ~selectAllChecked)

\* C18 witness: after clear() the button is disabled and the box is neither
\* checked nor indeterminate.
C18_Witness ==
  /\ event.op = "clear"
  /\ cartItems = <<>>
  /\ checkoutDisabled
  /\ ~selectAllChecked
  /\ ~selectAllIndeterminate

\* C19: the list never grows, the selected count lies between 0 and the list
\* length, and the item ids are pairwise distinct.
C19_NoItemAdded ==
  /\ [](/\ 0 <= checkedCount
        /\ checkedCount <= Len(cartItems)
        /\ \A i, j \in 1..Len(cartItems) : cartItems[i].id = cartItems[j].id => i = j)
  /\ [][Len(cartItems') <= Len(cartItems)]_vars

\* C19 witness: an item was removed and one of the two initial items is left.
C19_Witness ==
  /\ event.op = "check"
  /\ Len(cartItems) = 1
  /\ checkedCount = 1

\* the list an operation of the cart leaves when applied to a list
ApplyCart(e, items) ==
  CASE e.op = "quantity" -> QuantityUpdater(items, e.id, e.quantity)
    [] e.op = "delete"   -> DeleteUpdater(items, e.id)
    [] e.op = "check"    -> CheckUpdater(items, e.id, e.checked)
    [] e.op = "checkAll" -> CheckAllUpdater(items, e.checked)
    [] e.op = "clear"    -> <<>>
    [] OTHER             -> items

\* the step an operation of the wizard leaves when applied to a step
ApplyStep(e, step) ==
  CASE e.op = "next" -> (IF step < 2 THEN step + 1 ELSE step)
    [] e.op = "prev" -> (IF step > 0 THEN step - 1 ELSE step)
    [] OTHER         -> step

\* C15: every user event finds the views rendered with the state the previous
\* operation left, and its result is the operation applied to that state:
\* no effect is lost and none is computed from a stale state.
C15_RunToCompletion ==
  /\ [](renderedStep = currentStep /\ renderedCartItems = cartItems)
  /\ [][/\ cartItems' = ApplyCart(event', cartItems)
        /\ currentStep' = ApplyStep(event', currentStep)]_vars

\* C15 witness: cart and wizard operations were mixed, the wizard is at step
\* 2 and the cart holds the changed list.
C15_Witness ==
  /\ event.op = "next"
  /\ currentStep = 2
  /\ renderedStep = 2
  /\ emitted = <<>>
  /\ cartItems = [InitialCartItems EXCEPT ![1].quantity = JsNum(InputMax), ![2].checked = FALSE]

\* C16: through the rendered buttons step 2 is absorbing, next() runs only
\* below step 2 and prev() only at step 1, and the payment-success message is
\* never emitted.
C16_TerminalAbsorbing ==
  /\ [](\A k \in 1..Len(emitted) : emitted[k] # "paymentSuccess")
  /\ [][/\ currentStep = 2 => currentStep' = 2
        /\ event'.op = "next" => currentStep < 2
        /\ event'.op = "prev" => currentStep = 1]_vars

\* C16 witness: the wizard is at step 2 and a later user event has been
\* handled without moving it.
C16_Witness ==
  /\ currentStep = 2
  /\ renderedStep = 2
  /\ event.op = "checkAll"
  /\ ~event.checked

\* C17: handleNext and handlePrev write a step computed from the rendered
\* step, so any number of invocations against one snapshot move the step by
\* at most 1 in total and a second next() (or prev()) in a row changes
\* nothing; a cart operation is applied to the current list, so the effects
\* of operations issued against one snapshot add up.
C17_StaleStepFunctionalCart ==
  /\ [](currentStep - renderedStep \in {0 - 1, 0, 1})
  /\ [][/\ event'.op = "next" =>
             currentStep' = (IF renderedStep < 2 THEN renderedStep + 1 ELSE currentStep)
        /\ event'.op = "prev" =>
             currentStep' = (IF renderedStep > 0 THEN renderedStep - 1 ELSE currentStep)
        /\ (event'.op = "next" /\ event.op = "next") => currentStep' = currentStep
        /\ (event'.op = "prev" /\ event.op = "prev") => currentStep' = currentStep
        /\ cartItems' = ApplyCart(event', cartItems)]_vars

\* C17 witness: against the initial snapshot two cart operations and next()
\* calls have run; both cart changes are in the list, the step is 1.
C17_Witness ==
  /\ event.op = "next"
  /\ renderedStep = 0
  /\ currentStep = 1
  /\ renderedCartItems = InitialCartItems
  /\ cartItems = [InitialCartItems EXCEPT ![1].quantity = JsNum(InputMax), ![2].checked = FALSE]

\* number of occurrences of a message in a sequence of messages
Count(msgs, m) == Cardinality({k \in 1..Len(msgs) : msgs[k] = m})

\* C20: beforeUpload accepts a file exactly when its type is image/jpeg or
\* image/png and its size is below 2 * 1024 * 1024 bytes, and it emits one
\* error message per failed condition: two when both fail, none on accept.
C20_UploadGate ==
  event.op = "beforeUpload" =>
    LET typeOk == file.type \in {"image/jpeg", "image/png"}
        sizeOk == file.size < 2 * 1024 * 1024
    IN  /\ returned = << typeOk /\ sizeOk >>
        /\ Count(emitted, "onlyJpgPng") = (IF typeOk THEN 0 ELSE 1)
        /\ Count(emitted, "tooLarge") = (IF sizeOk THEN 0 ELSE 1)
        /\ Len(emitted) = Count(emitted, "onlyJpgPng") + Count(emitted, "tooLarge")

\* C20 witness: a GIF of exactly 2 MiB was rejected with both messages.
C20_Witness ==
  /\ event.op = "beforeUpload"
  /\ file = [type |-> "image/gif", size |-> 2097152]
  /\ returned = <<FALSE>>
  /\ emitted = <<"onlyJpgPng", "tooLarge">>

\* C21: while a handler runs the loading flag of its view is true, when no
\* handler runs every loading flag is false, whether the try block completed
\* or threw, and a flag that is true becomes false again.
C21_LoadingLowered ==
  /\ [](call.pc # "idle" => loading[ViewOf(call.handler)])
  /\ [](call.pc = "idle" => \A v \in Views : ~loading[v])
  /\ \A v \in Views : loading[v] ~> ~loading[v]

\* C21 witness: Register.onFinish has finished after its try block threw
\* and the flag of the Register view is down.
C21_Witness ==
  /\ event.op = "Register.onFinish"
  /\ call.pc = "idle"
  /\ call.failed
  /\ emitted = <<"success", "error">>
  /\ ~loading["Register"]

====
